---- MODULE Spec2Model ----
(***************************************************************************)
(* Model of crates/turbopack-core/src/resolve/options.rs: the ImportMapping *)
(* templates, their interpretation as ImportMapResult, ImportMap::lookup,   *)
(* ResolvedMap::lookup and the ResolveOptions::modules view.                *)
(*                                                                          *)
(* Strings are sequences of one-character strings, Option<T> is a sequence  *)
(* of length 0 (None) or 1 (Some), Result<T> is a record with an ok flag.   *)
(* Every turbo-tasks function invocation is a task; a task's pc moves at    *)
(* each handle dereference (.await), where other tasks may be scheduled.    *)
(***************************************************************************)
EXTENDS Integers, Sequences, FiniteSets

VARIABLES
    direct,        \* ImportMap.direct: the alias table, entries best match first
    by_glob,       \* ImportMap.by_glob: ordered (glob, mapping) list
    resolved_map,  \* ResolvedMap.by_glob: ordered (root, glob, mapping) list
    options,       \* the ResolveOptions cells, by handle
    tasks          \* the invocations in flight, by task id

vars == <<direct, by_glob, resolved_map, options, tasks>>

(***************************************************************************)
(* Bounds of the model.                                                    *)
(***************************************************************************)
MaxAlts == 2        \* longest Alternatives list drawn as an input
MaxList == 3        \* longest name list given to primary_alternatives
MaxDirect == 2      \* most entries of ImportMap.direct
MaxGlobs == 2       \* most entries of ImportMap.by_glob
MaxReqLen == 2      \* longest request string
MaxResolved == 2    \* most entries of ResolvedMap.by_glob
MaxModules == 2     \* longest ResolveOptions.modules list
NumTasks == 2       \* concurrent invocations

None == <<>>
Some(x) == <<x>>

SeqsUpTo(S, n) == UNION {[1..k -> S] : k \in 0..n}

RECURSIVE StrsUpTo(_, _)
StrsUpTo(chars, n) ==
    IF n = 0 THEN {<<>>}
    ELSE LET shorter == StrsUpTo(chars, n - 1)
         IN  shorter \union {Append(s, c) : s \in shorter, c \in chars}

EndsWith(s, c) == Len(s) > 0 /\ s[Len(s)] = c

StartsWith(s, p) == Len(p) <= Len(s) /\ SubSeq(s, 1, Len(p)) = p

(***************************************************************************)
(* enum ImportMapping                                                      *)
(***************************************************************************)
External(name) == [tag |-> "External", name |-> name]
PrimaryAlternative(name, context) ==
    [tag |-> "PrimaryAlternative", pname |-> name, context |-> context]
Ignore == [tag |-> "Ignore"]
Empty == [tag |-> "Empty"]
Alternatives(list) == [tag |-> "Alternatives", list |-> list]

Ok(v) == [ok |-> TRUE, val |-> v]
Err(e) == [ok |-> FALSE, err |-> e]

(***************************************************************************)
(* ImportMapping::primary_alternatives                                     *)
(***************************************************************************)
\* Faulty variant: a single name is wrapped in a one-element Alternatives.
primary_alternatives_wrap(list, context) ==
    IF Len(list) = 0 THEN Ignore
    ELSE Alternatives([i \in 1..Len(list) |-> PrimaryAlternative(list[i], context)])

primary_alternatives(list, context) ==
    IF Len(list) = 0 THEN Ignore
    ELSE IF Len(list) = 1 THEN PrimaryAlternative(list[1], context)
    ELSE Alternatives([i \in 1..Len(list) |-> PrimaryAlternative(list[i], context)])

(***************************************************************************)
(* str::replace('*', capture): every '*' of s becomes capture.             *)
(***************************************************************************)
\* Faulty variant: only the first "*" is replaced (replacen(.., 1)).
RECURSIVE StrReplaceFirst(_, _)
StrReplaceFirst(s, capture) ==
    IF s = <<>> THEN <<>>
    ELSE IF Head(s) = "*" THEN capture \o Tail(s)
    ELSE <<Head(s)>> \o StrReplaceFirst(Tail(s), capture)

RECURSIVE StrReplace(_, _)
StrReplace(s, capture) ==
    IF s = <<>> THEN <<>>
    ELSE (IF Head(s) = "*" THEN capture ELSE <<Head(s)>>)
         \o StrReplace(Tail(s), capture)

(***************************************************************************)
(* Iterator::collect::<Result<Vec<_>>>(): the first Err, else Ok(values).  *)
(***************************************************************************)
CollectResults(rs) ==
    IF \E i \in 1..Len(rs) : ~rs[i].ok
    THEN rs[CHOOSE i \in 1..Len(rs) :
                ~rs[i].ok /\ \A j \in 1..(i - 1) : rs[j].ok]
    ELSE Ok([i \in 1..Len(rs) |-> rs[i].val])

(***************************************************************************)
(* <ImportMapping as AliasTemplate>::replace                               *)
(***************************************************************************)
RECURSIVE replace(_, _)
replace(self, capture) ==
    CASE self.tag = "External" ->
            IF self.name /= None
            THEN Ok(External(Some(StrReplace(self.name[1], capture))))
            ELSE Ok(External(None))
      [] self.tag = "PrimaryAlternative" ->
            Ok(PrimaryAlternative(StrReplace(self.pname, capture), self.context))
      [] self.tag \in {"Ignore", "Empty"} -> Ok(self)
      [] self.tag = "Alternatives" ->
            LET rs == CollectResults(
                        [i \in 1..Len(self.list) |-> replace(self.list[i], capture)])
            IN  IF rs.ok THEN Ok(Alternatives(rs.val)) ELSE rs

(***************************************************************************)
(* enum ImportMapResult, and the collaborators it is built from:           *)
(* ResolveResult::Special(SpecialType, references) and RequestVc::parse    *)
(***************************************************************************)
Special(type, references) ==
    [kind |-> "Special", type |-> type, references |-> references]
OriginalReferenceExternal == [special |-> "OriginalReferenceExternal"]
OriginalReferenceTypeExternal(req) ==
    [special |-> "OriginalReferenceTypeExternal", req |-> req]
SpecialIgnore == [special |-> "Ignore"]
SpecialEmpty == [special |-> "Empty"]

\* A request parsed from a string keeps the string as its string form.
RequestParse(str) == [request |-> "Parsed", str |-> str]
\* A request without a string form (dynamic).
RequestDynamic == [request |-> "Dynamic"]
\* Request::request(): the optional string form.
RequestString(req) == IF req.request = "Parsed" THEN Some(req.str) ELSE None

Result(resolve_result) == [tag |-> "Result", result |-> resolve_result]
Alias(request, context) == [tag |-> "Alias", request |-> request, context |-> context]
AlternativesResult(list) == [tag |-> "Alternatives", list |-> list]
NoEntry == [tag |-> "NoEntry"]

(***************************************************************************)
(* fn import_mapping_to_result                                             *)
(***************************************************************************)
\* Faulty variant: Empty is given the outcome of Ignore.
RECURSIVE import_mapping_to_result_same_tag(_)
import_mapping_to_result_same_tag(mapping) ==
    CASE mapping.tag = "External" ->
            Result(Special(
                IF mapping.name = None THEN OriginalReferenceExternal
                ELSE OriginalReferenceTypeExternal(mapping.name[1]),
                <<>>))
      [] mapping.tag = "Ignore" -> Result(Special(SpecialIgnore, <<>>))
      [] mapping.tag = "Empty" -> Result(Special(SpecialIgnore, <<>>))
      [] mapping.tag = "PrimaryAlternative" ->
            Alias(RequestParse(mapping.pname), mapping.context)
      [] mapping.tag = "Alternatives" ->
            AlternativesResult(
                [i \in 1..Len(mapping.list) |->
                    import_mapping_to_result_same_tag(mapping.list[i])])

RECURSIVE import_mapping_to_result(_)
import_mapping_to_result(mapping) ==
    CASE mapping.tag = "External" ->
            Result(Special(
                IF mapping.name = None THEN OriginalReferenceExternal
                ELSE OriginalReferenceTypeExternal(mapping.name[1]),
                <<>>))
      [] mapping.tag = "Ignore" -> Result(Special(SpecialIgnore, <<>>))
      [] mapping.tag = "Empty" -> Result(Special(SpecialEmpty, <<>>))
      [] mapping.tag = "PrimaryAlternative" ->
            Alias(RequestParse(mapping.pname), mapping.context)
      [] mapping.tag = "Alternatives" ->
            AlternativesResult(
                [i \in 1..Len(mapping.list) |->
                    import_mapping_to_result(mapping.list[i])])

(***************************************************************************)
(* Collaborators, known here by their interface only.                      *)
(***************************************************************************)
\* FileSystemPath: a path inside one filesystem, segments joined by "/".
FsPath(path) == [fs |-> "fs", path |-> path]

\* FileSystemPath::get_path_to: the path of inner relative to self, when inner
\* lies under self.
get_path_to(self, inner) ==
    IF self.fs /= inner.fs THEN None
    ELSE IF self.path = <<>> THEN Some(inner.path)
    ELSE IF StartsWith(inner.path, Append(self.path, "/"))
         THEN Some(SubSeq(inner.path, Len(self.path) + 2, Len(inner.path)))
    ELSE None

\* Glob: literal characters, and "*" for any run of characters other than "/".
Glob(expression) == [expression |-> expression]

RECURSIVE GlobMatch(_, _)
GlobMatch(p, s) ==
    IF p = <<>> THEN s = <<>>
    ELSE IF Head(p) = "*"
         THEN \/ GlobMatch(Tail(p), s)
              \/ s /= <<>> /\ Head(s) /= "/" /\ GlobMatch(p, Tail(s))
    ELSE s /= <<>> /\ Head(s) = Head(p) /\ GlobMatch(Tail(p), Tail(s))

\* Glob::execute
execute(glob, candidate) == GlobMatch(glob.expression, candidate)

\* AliasPattern: an exact key, or prefix*suffix with one capture.
Exact(key) == [pattern |-> "Exact", key |-> key]
Wildcard(prefix, suffix) == [pattern |-> "Wildcard", prefix |-> prefix, suffix |-> suffix]

PatternMatches(pattern, key) ==
    IF pattern.pattern = "Exact" THEN key = pattern.key
    ELSE /\ Len(pattern.prefix) + Len(pattern.suffix) <= Len(key)
         /\ StartsWith(key, pattern.prefix)
         /\ SubSeq(key, Len(key) - Len(pattern.suffix) + 1, Len(key)) = pattern.suffix

Capture(pattern, key) ==
    SubSeq(key, Len(pattern.prefix) + 1, Len(key) - Len(pattern.suffix))

\* AliasMap::lookup: the matches of key, best first (the table's entry order).
\* An exact match borrows the stored value; a wildcard match is the template
\* with the capture substituted (AliasTemplate::replace).
RECURSIVE AliasMapLookup(_, _)
AliasMapLookup(map, key) ==
    IF map = <<>> THEN <<>>
    ELSE LET e == Head(map)
             rest == AliasMapLookup(Tail(map), key)
         IN  IF ~PatternMatches(e.pattern, key) THEN rest
             ELSE IF e.pattern.pattern = "Exact"
                  THEN <<[match |-> "Exact", value |-> e.template]>> \o rest
             ELSE <<[match |-> "Replaced",
                     output |-> replace(e.template, Capture(e.pattern, key))]>> \o rest

\* AliasMatch::try_into_self
try_into_self(m) == IF m.match = "Exact" THEN Ok(m.value) ELSE m.output

(***************************************************************************)
(* Tasks: one per invocation of a function of the module.                  *)
(***************************************************************************)
Pending == [tag |-> "Pending"]

NewTask(fn, arg) ==
    [fn |-> fn, arg |-> arg, pc |-> "start", this |-> None, idx |-> 0,
     result |-> Pending, calls |-> <<>>]

Finish(t, result, calls) ==
    [tasks EXCEPT ![t] = [@ EXCEPT !.pc = "done", !.result = result, !.calls = calls]]

TaskIds == DOMAIN tasks

Done(t, fn) == tasks[t].fn = fn /\ tasks[t].pc = "done"

(***************************************************************************)
(* Inputs of the template functions.                                       *)
(***************************************************************************)
NamePool == {<<>>, <<"a">>, <<"*">>, <<"*", "a", "*">>}
CapturePool == {<<>>, <<"b">>, <<"*">>, <<"b", "/">>}
ContextPool == {None, Some(FsPath(<<"a">>))}

LeafMappings ==
    {Ignore, Empty, External(None)}
    \union {External(Some(n)) : n \in NamePool}
    \union {PrimaryAlternative(n, c) : n \in NamePool, c \in ContextPool}

NestedMappings ==
    {Alternatives(<<>>),
     Alternatives(<<PrimaryAlternative(<<"*">>, None), External(Some(<<"a">>)), Empty>>)}

MappingPool ==
    LeafMappings
    \union {Alternatives(l) : l \in SeqsUpTo(LeafMappings \union NestedMappings, MaxAlts)}

NoCells ==
    /\ direct = <<>>
    /\ by_glob = <<>>
    /\ resolved_map = <<>>
    /\ options = <<>>

InitMapping ==
    /\ NoCells
    /\ \/ \E m \in MappingPool, c \in CapturePool :
            tasks = <<NewTask("replace", [self |-> m, capture |-> c])>>
       \/ \E m \in MappingPool :
            tasks = <<NewTask("import_mapping_to_result", [mapping |-> m])>>
       \/ \E l \in SeqsUpTo(NamePool, MaxList), c \in ContextPool :
            tasks = <<NewTask("primary_alternatives", [list |-> l, context |-> c])>>

CallReplace(t) ==
    /\ tasks[t].fn = "replace" /\ tasks[t].pc = "start"
    /\ tasks' = Finish(t, replace(tasks[t].arg.self, tasks[t].arg.capture), <<>>)
    /\ UNCHANGED <<direct, by_glob, resolved_map, options>>

CallImportMappingToResult(t) ==
    /\ tasks[t].fn = "import_mapping_to_result" /\ tasks[t].pc = "start"
    /\ tasks' = Finish(t, import_mapping_to_result(tasks[t].arg.mapping), <<>>)
    /\ UNCHANGED <<direct, by_glob, resolved_map, options>>

CallPrimaryAlternatives(t) ==
    /\ tasks[t].fn = "primary_alternatives" /\ tasks[t].pc = "start"
    /\ tasks' = Finish(t, primary_alternatives(tasks[t].arg.list, tasks[t].arg.context), <<>>)
    /\ UNCHANGED <<direct, by_glob, resolved_map, options>>

NextMapping ==
    \/ \E t \in TaskIds : CallReplace(t)
    \/ \E t \in TaskIds : CallImportMappingToResult(t)
    \/ \E t \in TaskIds : CallPrimaryAlternatives(t)

SpecMapping == InitMapping /\ [][NextMapping]_vars

(***************************************************************************)
(* ImportMapVc::lookup                                                     *)
(***************************************************************************)
Call(callee, idx, arg) == [callee |-> callee, idx |-> idx, arg |-> arg]

\* Faulty variant: every trailing "/" is stripped (trim_end_matches).
RECURSIVE TrimAllSlashes(_)
TrimAllSlashes(request_string) ==
    IF EndsWith(request_string, "/")
    THEN TrimAllSlashes(SubSeq(request_string, 1, Len(request_string) - 1))
    ELSE request_string

\* let request_string_without_slash = ...
request_string_without_slash(request_string) ==
    IF EndsWith(request_string, "/")
    THEN SubSeq(request_string, 1, Len(request_string) - 1)
    ELSE request_string

\* Faulty variant: the loop does not return at the first match, the last one wins.
RECURSIVE ByGlobLoopLast(_, _, _)
ByGlobLoopLast(entries, candidate, i) ==
    IF i > Len(entries) THEN [found |-> FALSE, idx |-> 0, calls |-> <<>>]
    ELSE LET rest == ByGlobLoopLast(entries, candidate, i + 1)
             call == <<Call("glob.execute", i, candidate)>>
         IN  IF rest.found THEN [rest EXCEPT !.calls = call \o @]
             ELSE IF execute(entries[i].glob, candidate)
                  THEN [found |-> TRUE, idx |-> i, calls |-> call \o rest.calls]
             ELSE [rest EXCEPT !.calls = call \o @]

\* for (glob, mapping) in this.by_glob.iter() { if glob.execute(..) { return .. } }
RECURSIVE ByGlobLoop(_, _, _)
ByGlobLoop(entries, candidate, i) ==
    IF i > Len(entries) THEN [found |-> FALSE, idx |-> 0, calls |-> <<>>]
    ELSE IF execute(entries[i].glob, candidate)
         THEN [found |-> TRUE, idx |-> i, calls |-> <<Call("glob.execute", i, candidate)>>]
    ELSE LET rest == ByGlobLoop(entries, candidate, i + 1)
         IN  [rest EXCEPT !.calls = <<Call("glob.execute", i, candidate)>> \o @]

Returned(result, calls) == [result |-> result, calls |-> calls]

\* Faulty variant: by_glob is walked before the alias table is asked.
ImportMapLookupGlobFirst(this, request) ==
    IF RequestString(request) /= None
    THEN LET request_string == RequestString(request)[1]
             loop == ByGlobLoop(this.by_glob,
                                request_string_without_slash(request_string), 1)
             matches == AliasMapLookup(this.direct, request_string)
             queried == <<Call("direct.lookup", 0, request_string)>>
         IN  IF loop.found
             THEN Returned(Ok(import_mapping_to_result(this.by_glob[loop.idx].mapping)),
                           loop.calls)
             ELSE IF matches /= <<>>
                  THEN LET result == try_into_self(matches[1])
                       IN  Returned(IF result.ok
                                    THEN Ok(import_mapping_to_result(result.val))
                                    ELSE result,
                                    loop.calls \o queried)
             ELSE Returned(Ok(NoEntry), loop.calls \o queried)
    ELSE Returned(Ok(NoEntry), <<>>)

\* Faulty variant: the trailing "/" is stripped before the alias table is asked.
ImportMapLookupNormalizedDirect(this, request) ==
    IF RequestString(request) /= None
    THEN LET request_string == request_string_without_slash(RequestString(request)[1])
             matches == AliasMapLookup(this.direct, request_string)
             queried == <<Call("direct.lookup", 0, request_string)>>
         IN  IF matches /= <<>>
             THEN LET result == try_into_self(matches[1])
                  IN  Returned(IF result.ok
                               THEN Ok(import_mapping_to_result(result.val))
                               ELSE result,
                               queried)
             ELSE LET loop == ByGlobLoop(this.by_glob, request_string, 1)
                  IN  IF loop.found
                      THEN Returned(
                              Ok(import_mapping_to_result(this.by_glob[loop.idx].mapping)),
                              queried \o loop.calls)
                      ELSE Returned(Ok(NoEntry), queried \o loop.calls)
    ELSE Returned(Ok(NoEntry), <<>>)

\* The body of lookup once self and request are dereferenced: what it returns
\* and the calls it made to the alias table and to the globs.
ImportMapLookup(this, request) ==
    IF RequestString(request) /= None
    THEN LET request_string == RequestString(request)[1]
             matches == AliasMapLookup(this.direct, request_string)
             queried == <<Call("direct.lookup", 0, request_string)>>
         IN  IF matches /= <<>>
             THEN LET result == try_into_self(matches[1])
                  IN  Returned(IF result.ok
                               THEN Ok(import_mapping_to_result(result.val))
                               ELSE result,
                               queried)
             ELSE LET loop == ByGlobLoop(this.by_glob,
                                         request_string_without_slash(request_string), 1)
                  IN  IF loop.found
                      THEN Returned(
                              Ok(import_mapping_to_result(this.by_glob[loop.idx].mapping)),
                              queried \o loop.calls)
                      ELSE Returned(Ok(NoEntry), queried \o loop.calls)
    ELSE Returned(Ok(NoEntry), <<>>)

\* let this = self.await?;
ImportMapLookupAwaitSelf(t) ==
    /\ tasks[t].fn = "ImportMap::lookup" /\ tasks[t].pc = "start"
    /\ tasks' = [tasks EXCEPT ![t] =
                    [@ EXCEPT !.pc = "await_request",
                              !.this = Some([direct |-> direct, by_glob |-> by_glob])]]
    /\ UNCHANGED <<direct, by_glob, resolved_map, options>>

MoveToFront(entries, i) ==
    <<entries[i]>> \o SubSeq(entries, 1, i - 1) \o SubSeq(entries, i + 1, Len(entries))

\* Faulty variant: a lookup moves the by_glob entry it matched to the front.
ImportMapLookupAwaitRequestMoveToFront(t) ==
    /\ tasks[t].fn = "ImportMap::lookup" /\ tasks[t].pc = "await_request"
    /\ LET ret == ImportMapLookup(tasks[t].this[1], tasks[t].arg.request)
           hits == {k \in 1..Len(ret.calls) :
                        /\ ret.calls[k].callee = "glob.execute"
                        /\ ret.result = Ok(import_mapping_to_result(
                                            by_glob[ret.calls[k].idx].mapping))}
       IN  /\ tasks' = Finish(t, ret.result, ret.calls)
           /\ by_glob' = IF hits = {} THEN by_glob
                         ELSE MoveToFront(by_glob, ret.calls[CHOOSE k \in hits : TRUE].idx)
    /\ UNCHANGED <<direct, resolved_map, options>>

\* request.await?, and the rest of the function, which does not suspend again.
ImportMapLookupAwaitRequest(t) ==
    /\ tasks[t].fn = "ImportMap::lookup" /\ tasks[t].pc = "await_request"
    /\ LET ret == ImportMapLookup(tasks[t].this[1], tasks[t].arg.request)
       IN  tasks' = Finish(t, ret.result, ret.calls)
    /\ UNCHANGED <<direct, by_glob, resolved_map, options>>

(***************************************************************************)
(* Inputs of ImportMap::lookup.                                            *)
(***************************************************************************)
RequestChars == {"a", "/"}

RequestPool ==
    {RequestDynamic} \union {RequestParse(s) : s \in StrsUpTo(RequestChars, MaxReqLen)}

DirectEntry(pattern, template) == [pattern |-> pattern, template |-> template]
GlobEntry(glob, mapping) == [glob |-> glob, mapping |-> mapping]

DirectEntryPool ==
    {DirectEntry(Exact(<<"a">>), PrimaryAlternative(<<"a", "/", "a">>, None)),
     DirectEntry(Exact(<<"a", "/">>), Ignore),
     DirectEntry(Wildcard(<<"a">>, <<>>), PrimaryAlternative(<<"*", "*">>, None)),
     DirectEntry(Wildcard(<<>>, <<"a">>), External(Some(<<"*">>)))}

GlobEntryPool ==
    {GlobEntry(Glob(<<"a">>), Empty),
     GlobEntry(Glob(<<"*">>), External(None)),
     GlobEntry(Glob(<<"a", "/">>), Ignore),
     GlobEntry(Glob(<<"*", "a">>), Alternatives(<<Ignore, External(Some(<<"a">>))>>))}

InitImportMap ==
    /\ direct \in SeqsUpTo(DirectEntryPool, MaxDirect)
    /\ by_glob \in SeqsUpTo(GlobEntryPool, MaxGlobs)
    /\ resolved_map = <<>>
    /\ options = <<>>
    /\ \E r \in RequestPool : tasks = <<NewTask("ImportMap::lookup", [request |-> r])>>

NextImportMap ==
    \/ \E t \in TaskIds : ImportMapLookupAwaitSelf(t)
    \/ \E t \in TaskIds : ImportMapLookupAwaitRequest(t)

SpecImportMap == InitImportMap /\ [][NextImportMap]_vars

(***************************************************************************)
(* ResolvedMapVc::lookup                                                   *)
(***************************************************************************)
ResolvedEntry(root, glob, mapping) == [root |-> root, glob |-> glob, mapping |-> mapping]

\* Faulty variant: the glob is given the whole path, whatever the root.
RootRelativePathUnchecked(root, resolved) == Some(resolved.path)

\* if let Some(path) = root.get_path_to(&resolved)
RootRelativePath(root, resolved) == get_path_to(root, resolved)

\* The end of one iteration of the loop over this.by_glob: the next entry, or
\* Ok(ImportMapResult::NoEntry) after the last.
ResolvedMapNextEntry(task, calls) ==
    IF task.idx + 1 > Len(task.this[1].by_glob)
    THEN [task EXCEPT !.pc = "done", !.result = Ok(NoEntry), !.calls = calls]
    ELSE [task EXCEPT !.pc = "await_root", !.idx = @ + 1, !.calls = calls]

\* let this = self.await?;
ResolvedMapLookupAwaitSelf(t) ==
    /\ tasks[t].fn = "ResolvedMap::lookup" /\ tasks[t].pc = "start"
    /\ tasks' = [tasks EXCEPT ![t] =
                    [@ EXCEPT !.pc = "await_resolved",
                              !.this = Some([by_glob |-> resolved_map])]]
    /\ UNCHANGED <<direct, by_glob, resolved_map, options>>

\* let resolved = resolved.await?; and the loop's entry
ResolvedMapLookupAwaitResolved(t) ==
    /\ tasks[t].fn = "ResolvedMap::lookup" /\ tasks[t].pc = "await_resolved"
    /\ tasks' = [tasks EXCEPT ![t] = ResolvedMapNextEntry(@, @.calls)]
    /\ UNCHANGED <<direct, by_glob, resolved_map, options>>

\* let root = root.await?; if let Some(path) = root.get_path_to(&resolved)
ResolvedMapLookupAwaitRoot(t) ==
    /\ tasks[t].fn = "ResolvedMap::lookup" /\ tasks[t].pc = "await_root"
    /\ LET entry == tasks[t].this[1].by_glob[tasks[t].idx]
       IN  tasks' = [tasks EXCEPT ![t] =
                IF RootRelativePath(entry.root, tasks[t].arg.resolved) /= None
                THEN [@ EXCEPT !.pc = "await_glob"]
                ELSE ResolvedMapNextEntry(@, @.calls)]
    /\ UNCHANGED <<direct, by_glob, resolved_map, options>>

\* if glob.await?.execute(path) { return Ok(import_mapping_to_result(mapping)) }
ResolvedMapLookupAwaitGlob(t) ==
    /\ tasks[t].fn = "ResolvedMap::lookup" /\ tasks[t].pc = "await_glob"
    /\ LET entry == tasks[t].this[1].by_glob[tasks[t].idx]
           path == RootRelativePath(entry.root, tasks[t].arg.resolved)[1]
           calls == Append(tasks[t].calls, Call("glob.execute", tasks[t].idx, path))
       IN  tasks' = [tasks EXCEPT ![t] =
                IF execute(entry.glob, path)
                THEN [@ EXCEPT !.pc = "done",
                               !.result = Ok(import_mapping_to_result(entry.mapping)),
                               !.calls = calls]
                ELSE ResolvedMapNextEntry(@, calls)]
    /\ UNCHANGED <<direct, by_glob, resolved_map, options>>

(***************************************************************************)
(* Inputs of ResolvedMap::lookup.                                          *)
(***************************************************************************)
ResolvedPathPool ==
    {FsPath(<<"a">>), FsPath(<<"a", "a">>), FsPath(<<"a", "/", "a">>),
     FsPath(<<"a", "/", "b">>), FsPath(<<"b", "/", "a">>)}

ResolvedEntryPool ==
    {ResolvedEntry(FsPath(<<"a">>), Glob(<<"a">>), Ignore),
     ResolvedEntry(FsPath(<<"b">>), Glob(<<"*">>), Empty),
     ResolvedEntry(FsPath(<<>>), Glob(<<"*">>), External(None)),
     ResolvedEntry(FsPath(<<"a">>), Glob(<<"*">>),
                   PrimaryAlternative(<<"a">>, Some(FsPath(<<"a">>))))}

InitResolvedMap ==
    /\ direct = <<>>
    /\ by_glob = <<>>
    /\ resolved_map \in SeqsUpTo(ResolvedEntryPool, MaxResolved)
    /\ options = <<>>
    /\ \E r \in ResolvedPathPool :
            tasks = <<NewTask("ResolvedMap::lookup", [resolved |-> r])>>

NextResolvedMap ==
    \/ \E t \in TaskIds : ResolvedMapLookupAwaitSelf(t)
    \/ \E t \in TaskIds : ResolvedMapLookupAwaitResolved(t)
    \/ \E t \in TaskIds : ResolvedMapLookupAwaitRoot(t)
    \/ \E t \in TaskIds : ResolvedMapLookupAwaitGlob(t)

SpecResolvedMap == InitResolvedMap /\ [][NextResolvedMap]_vars

(***************************************************************************)
(* ResolveOptions, ResolveModulesOptions and the modules view              *)
(***************************************************************************)
Nested(path, dirs) == [modules |-> "Nested", path |-> path, dirs |-> dirs]
Path(path) == [modules |-> "Path", path |-> path]
Registry(path, locked_versions) ==
    [modules |-> "Registry", path |-> path, locked_versions |-> locked_versions]

MainField(field) == [into_package |-> "MainField", field |-> field]

ResolveOptions(extensions, modules, into_package, import_map, resolved_map_vc) ==
    [extensions |-> extensions, modules |-> modules, into_package |-> into_package,
     import_map |-> import_map, resolved_map |-> resolved_map_vc,
     placeholder_for_future_extensions |-> <<>>]

ResolveModulesOptions(modules) == [modules |-> modules]

\* Faulty variant: the view also carries the extensions.
ModulesViewWithExtensions(this) ==
    [modules |-> this.modules, extensions |-> this.extensions]

\* ResolveModulesOptions { modules: self.await?.modules.clone() } of the method
ModulesView(this) == ResolveModulesOptions(this.modules)

\* ResolveModulesOptions { modules: options.await?.modules.clone() } of the
\* free function
ResolveModulesOptionsView(this) == ResolveModulesOptions(this.modules)

\* ResolveOptionsVc::modules: self.await?, then the view
ResolveOptionsModules(t) ==
    /\ tasks[t].fn = "ResolveOptions::modules" /\ tasks[t].pc = "start"
    /\ tasks' = Finish(t, Ok(ModulesView(options[tasks[t].arg.self])), <<>>)
    /\ UNCHANGED <<direct, by_glob, resolved_map, options>>

\* resolve_modules_options: options.await?, then the view
ResolveModulesOptionsFn(t) ==
    /\ tasks[t].fn = "resolve_modules_options" /\ tasks[t].pc = "start"
    /\ tasks' = Finish(t, Ok(ResolveModulesOptionsView(options[tasks[t].arg.options])), <<>>)
    /\ UNCHANGED <<direct, by_glob, resolved_map, options>>

(***************************************************************************)
(* Inputs of the modules view: two ResolveOptions cells and two callers.   *)
(***************************************************************************)
ResolveModulesPool ==
    {Nested(FsPath(<<"a">>), <<"node_modules">>),
     Path(FsPath(<<"a">>)),
     Registry(FsPath(<<"b">>), "LockedVersions")}

OtherFieldsPool ==
    {[extensions |-> <<>>, into_package |-> <<>>,
      import_map |-> None, resolved_map |-> None],
     [extensions |-> <<".js">>, into_package |-> <<MainField("main")>>,
      import_map |-> Some("import_map"), resolved_map |-> None],
     [extensions |-> <<".js", ".ts">>, into_package |-> <<>>,
      import_map |-> None, resolved_map |-> Some("resolved_map")]}

ResolveOptionsPool ==
    {ResolveOptions(o.extensions, m, o.into_package, o.import_map, o.resolved_map) :
        m \in SeqsUpTo(ResolveModulesPool, MaxModules), o \in OtherFieldsPool}

ModulesCall(fn, handle) ==
    IF fn = "ResolveOptions::modules" THEN NewTask(fn, [self |-> handle])
    ELSE NewTask(fn, [options |-> handle])

ModulesFns == {"ResolveOptions::modules", "resolve_modules_options"}

InitOptions ==
    /\ direct = <<>>
    /\ by_glob = <<>>
    /\ resolved_map = <<>>
    /\ options \in [1..2 -> ResolveOptionsPool]
    /\ \E f1 \in ModulesFns, f2 \in ModulesFns, h2 \in 1..2 :
            tasks = <<ModulesCall(f1, 1), ModulesCall(f2, h2)>>

NextOptions ==
    \/ \E t \in TaskIds : ResolveOptionsModules(t)
    \/ \E t \in TaskIds : ResolveModulesOptionsFn(t)

SpecOptions == InitOptions /\ [][NextOptions]_vars

(***************************************************************************)
(* The lookups as concurrent tasks over one ImportMap and one ResolvedMap. *)
(***************************************************************************)
SharedDirectPool ==
    {<<>>,
     <<DirectEntry(Wildcard(<<"a">>, <<>>), PrimaryAlternative(<<"*", "*">>, None)),
       DirectEntry(Exact(<<"a", "/">>), Ignore)>>}

SharedGlobPool ==
    {<<GlobEntry(Glob(<<"*">>), External(None))>>,
     <<GlobEntry(Glob(<<"a", "/">>), Ignore),
       GlobEntry(Glob(<<"*">>), External(None)),
       GlobEntry(Glob(<<"a">>), Empty)>>}

SharedResolvedPool ==
    {<<>>,
     <<ResolvedEntry(FsPath(<<"b">>), Glob(<<"*">>), Empty),
       ResolvedEntry(FsPath(<<"a">>), Glob(<<"a">>), Ignore),
       ResolvedEntry(FsPath(<<>>), Glob(<<"*">>), External(None))>>}

LookupCalls ==
    {NewTask("ImportMap::lookup", [request |-> r]) :
        r \in {RequestDynamic, RequestParse(<<"a">>), RequestParse(<<"a", "/">>)}}
    \union
    {NewTask("ResolvedMap::lookup", [resolved |-> r]) :
        r \in {FsPath(<<"a", "/", "a">>), FsPath(<<"a", "/", "b">>)}}

Init ==
    /\ direct \in SharedDirectPool
    /\ by_glob \in SharedGlobPool
    /\ resolved_map \in SharedResolvedPool
    /\ options = <<>>
    /\ tasks \in [1..NumTasks -> LookupCalls]

Next ==
    \/ \E t \in TaskIds : ImportMapLookupAwaitSelf(t)
    \/ \E t \in TaskIds : ImportMapLookupAwaitRequest(t)
    \/ \E t \in TaskIds : ResolvedMapLookupAwaitSelf(t)
    \/ \E t \in TaskIds : ResolvedMapLookupAwaitResolved(t)
    \/ \E t \in TaskIds : ResolvedMapLookupAwaitRoot(t)
    \/ \E t \in TaskIds : ResolvedMapLookupAwaitGlob(t)

Spec == Init /\ [][Next]_vars

(***************************************************************************)
(* Properties of the template functions (SpecMapping).                     *)
(***************************************************************************)
StarsBefore(s, i) == Cardinality({j \in 1..(i - 1) : s[j] = "*"})

\* Where the image of s[i] starts in s with every "*" replaced by c.
Offset(s, c, i) == (i - 1) - StarsBefore(s, i) + StarsBefore(s, i) * Len(c)

\* out is s with every "*" replaced by c, and nothing else changed.
IsStarSubstitution(s, c, out) ==
    /\ Len(out) = Offset(s, c, Len(s) + 1)
    /\ \A i \in 1..Len(s) :
            LET o == Offset(s, c, i)
            IN  IF s[i] = "*" THEN SubSeq(out, o + 1, o + Len(c)) = c
                ELSE out[o + 1] = s[i]

RECURSIVE IsSubstituted(_, _, _)
IsSubstituted(m, c, r) ==
    /\ r.tag = m.tag
    /\ CASE m.tag = "External" ->
                IF m.name = None THEN r.name = None
                ELSE Len(r.name) = 1 /\ IsStarSubstitution(m.name[1], c, r.name[1])
          [] m.tag = "PrimaryAlternative" ->
                r.context = m.context /\ IsStarSubstitution(m.pname, c, r.pname)
          [] m.tag \in {"Ignore", "Empty"} -> r = m
          [] m.tag = "Alternatives" ->
                /\ Len(r.list) = Len(m.list)
                /\ \A i \in 1..Len(m.list) : IsSubstituted(m.list[i], c, r.list[i])

HasStarIn(s) == \E i \in 1..Len(s) : s[i] = "*"

RECURSIVE HasStar(_)
HasStar(m) ==
    CASE m.tag = "External" -> m.name /= None /\ HasStarIn(m.name[1])
      [] m.tag = "PrimaryAlternative" -> HasStarIn(m.pname)
      [] m.tag \in {"Ignore", "Empty"} -> FALSE
      [] m.tag = "Alternatives" -> \E i \in 1..Len(m.list) : HasStar(m.list[i])

RECURSIVE IsInterpretation(_, _)
IsInterpretation(m, r) ==
    /\ r.tag /= "NoEntry"
    /\ CASE m.tag = "External" ->
                /\ r.tag = "Result"
                /\ r.result.kind = "Special"
                /\ r.result.references = <<>>
                /\ IF m.name = None
                   THEN r.result.type = [special |-> "OriginalReferenceExternal"]
                   ELSE r.result.type = [special |-> "OriginalReferenceTypeExternal",
                                         req |-> m.name[1]]
          [] m.tag = "Ignore" ->
                r = [tag |-> "Result",
                     result |-> [kind |-> "Special", type |-> [special |-> "Ignore"],
                                 references |-> <<>>]]
          [] m.tag = "Empty" ->
                r = [tag |-> "Result",
                     result |-> [kind |-> "Special", type |-> [special |-> "Empty"],
                                 references |-> <<>>]]
          [] m.tag = "PrimaryAlternative" ->
                /\ r.tag = "Alias"
                /\ r.request = RequestParse(m.pname)
                /\ r.context = m.context
          [] m.tag = "Alternatives" ->
                /\ r.tag = "Alternatives"
                /\ Len(r.list) = Len(m.list)
                /\ \A i \in 1..Len(m.list) : IsInterpretation(m.list[i], r.list[i])

\* C5: import_mapping_to_result is total and never yields NoEntry: External
\* gives the external outcome (with the name when there is one), Ignore the
\* ignore outcome, Empty the empty outcome (another outcome than ignore),
\* PrimaryAlternative(name, root) gives Alias(parsed name, root), and
\* Alternatives gives the element-wise interpretations, same length and order.
C5_InterpretationTotal ==
    \A t \in TaskIds :
        Done(t, "import_mapping_to_result") =>
            IsInterpretation(tasks[t].arg.mapping, tasks[t].result)

C5_Witness ==
    \E t \in TaskIds :
        /\ Done(t, "import_mapping_to_result")
        /\ tasks[t].arg.mapping = Alternatives(<<Empty, Ignore>>)
        /\ tasks[t].result.list[1] /= tasks[t].result.list[2]

\* C6: replace(m, c) succeeds with a mapping of the tag and arity of m: Ignore,
\* Empty and External(None) unchanged, every "*" of a name replaced by c, the
\* root of a PrimaryAlternative kept, Alternatives substituted element-wise;
\* a mapping without "*" is returned as it is.
C6_ReplaceShape ==
    \A t \in TaskIds :
        Done(t, "replace") =>
            /\ tasks[t].result.ok
            /\ IsSubstituted(tasks[t].arg.self, tasks[t].arg.capture, tasks[t].result.val)
            /\ ~HasStar(tasks[t].arg.self) => tasks[t].result.val = tasks[t].arg.self

C6_Witness ==
    \E t \in TaskIds :
        /\ Done(t, "replace")
        /\ tasks[t].arg.capture = <<"b", "/">>
        /\ tasks[t].arg.self =
              Alternatives(<<PrimaryAlternative(<<"*", "a", "*">>, Some(FsPath(<<"a">>))),
                             External(Some(<<"*">>))>>)
        /\ tasks[t].result.ok
        /\ tasks[t].result.val.list[1].pname = <<"b", "/", "a", "b", "/">>

\* C10: primary_alternatives gives Ignore for no name, the PrimaryAlternative
\* itself for one name, and for two or more names the Alternatives of their
\* PrimaryAlternatives, in the order of the list and with the same context.
C10_PrimaryAlternatives ==
    \A t \in TaskIds :
        Done(t, "primary_alternatives") =>
            LET list == tasks[t].arg.list
                context == tasks[t].arg.context
                r == tasks[t].result
            IN  /\ Len(list) = 0 => r = [tag |-> "Ignore"]
                /\ Len(list) = 1 =>
                        /\ r.tag = "PrimaryAlternative"
                        /\ r.pname = list[1]
                        /\ r.context = context
                /\ Len(list) >= 2 =>
                        /\ r.tag = "Alternatives"
                        /\ Len(r.list) = Len(list)
                        /\ \A i \in 1..Len(list) :
                                /\ r.list[i].tag = "PrimaryAlternative"
                                /\ r.list[i].pname = list[i]
                                /\ r.list[i].context = context
                /\ r.tag = "Alternatives" => Len(r.list) >= 2

C10_WitnessOne ==
    \E t \in TaskIds :
        /\ Done(t, "primary_alternatives")
        /\ Len(tasks[t].arg.list) = 1
        /\ tasks[t].arg.context /= None
        /\ tasks[t].result.tag = "PrimaryAlternative"

(***************************************************************************)
(* Properties of ImportMap::lookup (SpecImportMap).                        *)
(***************************************************************************)
Min(S) == CHOOSE x \in S : \A y \in S : x <= y

\* The entries of the alias table that match the key.
DirectMatches(key) ==
    {i \in 1..Len(direct) : PatternMatches(direct[i].pattern, key)}

\* The mapping the best direct match stands for: the stored one for an exact
\* key, the template with the capture substituted for a wildcard key.
FirstDirectMapping(key) ==
    LET e == direct[Min(DirectMatches(key))]
    IN  IF e.pattern.pattern = "Exact" THEN e.template
        ELSE replace(e.template, Capture(e.pattern, key)).val

\* The entries of by_glob whose glob matches the candidate.
GlobMatches(candidate) ==
    {i \in 1..Len(by_glob) : execute(by_glob[i].glob, candidate)}

\* s without one trailing "/".
WithoutOneSlash(s) ==
    IF Len(s) > 0 /\ s[Len(s)] = "/" THEN [i \in 1..(Len(s) - 1) |-> s[i]] ELSE s

HasString(t) == RequestString(tasks[t].arg.request) /= None
StringOf(t) == RequestString(tasks[t].arg.request)[1]

Executed(t) == {k \in 1..Len(tasks[t].calls) : tasks[t].calls[k].callee = "glob.execute"}
Queried(t) == {k \in 1..Len(tasks[t].calls) : tasks[t].calls[k].callee = "direct.lookup"}

\* C1: when the alias table matches the request string, lookup returns the
\* interpretation of the first direct match and executes no glob, whatever
\* by_glob holds.
C1_DirectBeforeGlob ==
    \A t \in TaskIds :
        (Done(t, "ImportMap::lookup") /\ HasString(t) /\ DirectMatches(StringOf(t)) /= {}) =>
            /\ tasks[t].result = Ok(import_mapping_to_result(FirstDirectMapping(StringOf(t))))
            /\ Executed(t) = {}

C1_Witness ==
    \E t \in TaskIds :
        /\ Done(t, "ImportMap::lookup") /\ HasString(t)
        /\ Cardinality(DirectMatches(StringOf(t))) = 2
        /\ direct[1].pattern.pattern = "Wildcard"
        /\ GlobMatches(WithoutOneSlash(StringOf(t))) /= {}
        /\ tasks[t].result.val.tag = "Alias"

\* C2: when the alias table has no match, lookup returns the interpretation of
\* the by_glob entry of smallest index whose glob matches the request string
\* without its trailing slash.
C2_FirstGlobWins ==
    \A t \in TaskIds :
        (/\ Done(t, "ImportMap::lookup") /\ HasString(t)
         /\ DirectMatches(StringOf(t)) = {}
         /\ GlobMatches(WithoutOneSlash(StringOf(t))) /= {}) =>
            tasks[t].result =
                Ok(import_mapping_to_result(
                    by_glob[Min(GlobMatches(WithoutOneSlash(StringOf(t))))].mapping))

C2_Witness ==
    \E t \in TaskIds :
        /\ Done(t, "ImportMap::lookup") /\ HasString(t)
        /\ DirectMatches(StringOf(t)) = {}
        /\ GlobMatches(WithoutOneSlash(StringOf(t))) = {1, 2}
        /\ by_glob[1].mapping /= by_glob[2].mapping
        /\ tasks[t].result = Ok(import_mapping_to_result(by_glob[1].mapping))

\* C3: the alias table is queried with the request string as given; every glob
\* is executed on the request string without exactly one trailing "/" (on s
\* for the requests s and s/, on s/ for the request s//).
C3_SlashOnlyForGlobs ==
    \A t \in TaskIds :
        (Done(t, "ImportMap::lookup") /\ HasString(t)) =>
            /\ Cardinality(Queried(t)) = 1
            /\ \A k \in Queried(t) : tasks[t].calls[k].arg = StringOf(t)
            /\ \A k \in Executed(t) :
                    IF Len(StringOf(t)) > 0 /\ StringOf(t)[Len(StringOf(t))] = "/"
                    THEN Append(tasks[t].calls[k].arg, "/") = StringOf(t)
                    ELSE tasks[t].calls[k].arg = StringOf(t)

C3_Witness ==
    \E t \in TaskIds :
        /\ Done(t, "ImportMap::lookup")
        /\ tasks[t].arg.request = RequestParse(<<"a", "/">>)
        /\ \E i \in 1..Len(direct) : direct[i].pattern = Exact(<<"a">>)
        /\ by_glob = <<GlobEntry(Glob(<<"a">>), Empty)>>
        /\ tasks[t].result = Ok(import_mapping_to_result(Empty))

\* C7: lookup returns NoEntry exactly when no rule applies: for a request
\* without a string form, without consulting the tables; for a request string,
\* when neither the alias table nor a glob (on the string without its trailing
\* slash) matches.
C7_NoEntryIffNoRule ==
    \A t \in TaskIds :
        Done(t, "ImportMap::lookup") =>
            /\ tasks[t].result.ok
            /\ ~HasString(t) => (tasks[t].result.val = NoEntry /\ tasks[t].calls = <<>>)
            /\ HasString(t) =>
                    (tasks[t].result.val = NoEntry <=>
                        /\ DirectMatches(StringOf(t)) = {}
                        /\ GlobMatches(WithoutOneSlash(StringOf(t))) = {})

C7_Witness ==
    \E t \in TaskIds :
        /\ Done(t, "ImportMap::lookup")
        /\ direct = <<DirectEntry(Exact(<<"a">>), PrimaryAlternative(<<"a", "/", "a">>, None))>>
        /\ by_glob = <<>>
        /\ tasks[t].arg.request = RequestParse(<<"a", "a">>)
        /\ tasks[t].result = Ok(NoEntry)

(***************************************************************************)
(* Properties of ResolvedMap::lookup (SpecResolvedMap).                    *)
(***************************************************************************)
\* inner lies under root: root is the filesystem root, or inner is root, a "/"
\* and a remainder.
IsUnder(root, inner) ==
    \/ root.path = <<>>
    \/ /\ Len(inner.path) > Len(root.path)
       /\ \A i \in 1..Len(root.path) : inner.path[i] = root.path[i]
       /\ inner.path[Len(root.path) + 1] = "/"

RelativeTo(root, inner) ==
    IF root.path = <<>> THEN inner.path
    ELSE [i \in 1..(Len(inner.path) - Len(root.path) - 1) |->
            inner.path[Len(root.path) + 1 + i]]

\* The entries whose root is an ancestor of the path and whose glob matches the
\* path relative to that root.
Qualifying(resolved) ==
    {i \in 1..Len(resolved_map) :
        /\ IsUnder(resolved_map[i].root, resolved)
        /\ execute(resolved_map[i].glob, RelativeTo(resolved_map[i].root, resolved))}

\* C4: ResolvedMap::lookup returns the interpretation of the first entry whose
\* root is an ancestor of the resolved path and whose glob matches the
\* root-relative path, NoEntry when there is none; a glob is executed only for
\* an entry whose root is an ancestor, and only on the root-relative path.
C4_ResolvedMapLookup ==
    \A t \in TaskIds :
        Done(t, "ResolvedMap::lookup") =>
            LET resolved == tasks[t].arg.resolved
            IN  /\ tasks[t].result =
                        IF Qualifying(resolved) = {} THEN Ok(NoEntry)
                        ELSE Ok(import_mapping_to_result(
                                    resolved_map[Min(Qualifying(resolved))].mapping))
                /\ \A k \in 1..Len(tasks[t].calls) :
                        LET call == tasks[t].calls[k]
                            root == resolved_map[call.idx].root
                        IN  /\ call.callee = "glob.execute"
                            /\ IsUnder(root, resolved)
                            /\ call.arg = RelativeTo(root, resolved)
                            /\ root.path /= <<>> => call.arg /= resolved.path

C4_Witness ==
    \E t \in TaskIds :
        /\ Done(t, "ResolvedMap::lookup")
        /\ tasks[t].arg.resolved = FsPath(<<"a", "/", "a">>)
        /\ resolved_map = <<ResolvedEntry(FsPath(<<"b">>), Glob(<<"*">>), Empty),
                            ResolvedEntry(FsPath(<<"a">>), Glob(<<"a">>), Ignore)>>
        /\ tasks[t].calls = <<Call("glob.execute", 2, <<"a">>)>>
        /\ tasks[t].result = Ok(import_mapping_to_result(Ignore))

(***************************************************************************)
(* Properties of the modules view (SpecOptions).                           *)
(***************************************************************************)
IsModulesCall(t) == tasks[t].fn \in ModulesFns /\ tasks[t].pc = "done"

OptionsOf(t) ==
    IF tasks[t].fn = "ResolveOptions::modules" THEN options[tasks[t].arg.self]
    ELSE options[tasks[t].arg.options]

\* C8: the view of the method and of the free function holds exactly the
\* modules sequence of the ResolveOptions it is taken from and nothing else,
\* so two ResolveOptions with the same modules give equal views whatever their
\* extensions, into_package, import_map and resolved_map, and the method and
\* the free function give the same view.
C8_ModulesView ==
    \A t \in TaskIds :
        IsModulesCall(t) =>
            /\ tasks[t].result.ok
            /\ DOMAIN tasks[t].result.val = {"modules"}
            /\ tasks[t].result.val.modules = OptionsOf(t).modules
            /\ \A u \in TaskIds :
                    (IsModulesCall(u) /\ OptionsOf(u).modules = OptionsOf(t).modules) =>
                        tasks[u].result = tasks[t].result

C8_Witness ==
    /\ IsModulesCall(1) /\ IsModulesCall(2)
    /\ tasks[1].fn = "ResolveOptions::modules"
    /\ tasks[2].fn = "resolve_modules_options"
    /\ tasks[2].arg.options = 2
    /\ Len(options[1].modules) = 2
    /\ options[1].modules[1] /= options[1].modules[2]
    /\ options[1].modules = options[2].modules
    /\ options[1].extensions /= options[2].extensions
    /\ options[1].import_map /= options[2].import_map
    /\ tasks[1].result = tasks[2].result

(***************************************************************************)
(* Properties of concurrent lookups (Spec).                                *)
(***************************************************************************)
\* What a lookup returns when it runs alone on the maps as they are.
AloneResult(t) ==
    IF tasks[t].fn = "ImportMap::lookup"
    THEN IF ~HasString(t) THEN Ok(NoEntry)
         ELSE IF DirectMatches(StringOf(t)) /= {}
              THEN Ok(import_mapping_to_result(FirstDirectMapping(StringOf(t))))
         ELSE IF GlobMatches(WithoutOneSlash(StringOf(t))) /= {}
              THEN Ok(import_mapping_to_result(
                        by_glob[Min(GlobMatches(WithoutOneSlash(StringOf(t))))].mapping))
         ELSE Ok(NoEntry)
    ELSE IF Qualifying(tasks[t].arg.resolved) = {} THEN Ok(NoEntry)
         ELSE Ok(import_mapping_to_result(
                    resolved_map[Min(Qualifying(tasks[t].arg.resolved))].mapping))

LookupsDeterministic ==
    \A t \in TaskIds : tasks[t].pc = "done" => tasks[t].result = AloneResult(t)

MapsUnchanged ==
    /\ direct' = direct
    /\ by_glob' = by_glob
    /\ resolved_map' = resolved_map

\* C9: no step of a lookup changes the ImportMap or the ResolvedMap, and under
\* every interleaving of the lookups' suspension points each lookup returns
\* what it returns when run alone on the same map and request.
C9_ConcurrentLookups == [][MapsUnchanged]_vars /\ []LookupsDeterministic

C9_Witness ==
    /\ tasks[1].fn = "ImportMap::lookup" /\ tasks[1].pc = "done"
    /\ tasks[1].result.val.tag = "Result"
    /\ Len(tasks[1].calls) = 3
    /\ tasks[2].fn = "ResolvedMap::lookup" /\ tasks[2].pc = "await_glob"
    /\ tasks[2].idx = 3

====
